---- MODULE Spec2Model ----
(***************************************************************************)
(* Model of devtools/mocktwilio/server.go: the coordinator loop of the     *)
(* mock Twilio server (loop, Close, WaitInFlight) and its routing store    *)
(* (AddNumber, AddMsgService, number, numberSvc).                          *)
(*                                                                         *)
(* Unbuffered channels are modelled as rendezvous: a sender parked on the  *)
(* channel (pc "offered"/"send") and the receive in the loop's select are  *)
(* one joint step.  A channel of capacity one holding a table is a token:  *)
(* "full" when the table sits in the channel, "empty" while it is held.    *)
(* sync.WaitGroup is modelled by its counter: Wait returns at an instant   *)
(* at which the counter is zero.  sync.Once is modelled by its contract:   *)
(* exactly one Do runs f, no Do returns before that f has returned.        *)
(***************************************************************************)
EXTENDS Integers, Sequences, FiniteSets, TLC

\* ---------------------------------------------------------------- bounds
MaxMsgs == 2
MaxCalls == 1
MaxClosers == 2
MaxWaiters == 2

Msgs == 1..MaxMsgs
Calls == (MaxMsgs + 1)..(MaxMsgs + MaxCalls)
Units == Msgs \cup Calls
Closers == 1..MaxClosers
Waiters == 1..MaxWaiters

\* Routing store: concurrent callers and the longest MsgService.Numbers.
MaxProcs == 2
MaxMembers == 2

Procs == 1..MaxProcs

\* ID issuer: concurrent callers of nextID and the calls they make in all.
MaxIdCallers == 2
MaxIDs == 3

IdCallers == 1..MaxIdCallers

\* ------------------------------------------------------- routing-store data
\* Strings that are scanned by the code are sequences of characters.
Empty == <<>>
UrlA == <<"h", ":", "a">>
UrlB == <<"h", ":", "b">>
UrlNoScheme == <<"h", "a">>
UrlColonFirst == <<":", "a">>
NumberSmsURLs == {Empty, UrlA, UrlNoScheme, UrlColonFirst}
NumberVoiceURLs == {Empty, UrlA, UrlNoScheme}
ServiceSmsURLs == {Empty, UrlB, UrlNoScheme}

SvcMG1 == <<"M", "G", "1">>
SvcBad == <<"S", "M", "1">>
SvcIDs == {SvcMG1, SvcBad}

\* Phone numbers are opaque to the server: libphonenumber decides.
ValidNums == {"+15550001", "+15550002"}
NumStrs == ValidNums \cup {"5550"}

Letters == {"h", "a", "b", "M", "G", "S"}
SchemeExtra == {"1", "2", "+", "-", "."}

\* libphonenumber.Parse(s, "") returned no error
ParseOK(s) == s \in ValidNums

\* net/url getScheme: the scheme is what precedes the first ':', provided
\* only letters (and, after the first character, digits, '+', '-', '.')
\* precede it; a leading ':' is a parse error; anything else: no scheme.
RECURSIVE GetScheme(_, _)
GetScheme(s, i) ==
    IF i > Len(s) THEN [scheme |-> Empty, err |-> FALSE]
    ELSE IF s[i] \in Letters THEN GetScheme(s, i + 1)
    ELSE IF s[i] \in SchemeExtra
         THEN IF i = 1 THEN [scheme |-> Empty, err |-> FALSE]
                       ELSE GetScheme(s, i + 1)
    ELSE IF s[i] = ":"
         THEN IF i = 1 THEN [scheme |-> Empty, err |-> TRUE]
                       ELSE [scheme |-> SubSeq(s, 1, i - 1), err |-> FALSE]
    ELSE [scheme |-> Empty, err |-> FALSE]

\* validateURL(s) == nil
validateURL(s) ==
    LET u == GetScheme(s, 1)
    IN  ~u.err /\ u.scheme # Empty

\* strings.HasPrefix(s, prefix)
HasPrefix(s, prefix) ==
    /\ Len(s) >= Len(prefix)
    /\ SubSeq(s, 1, Len(prefix)) = prefix

MemberLists == UNION {[1..n -> NumStrs] : n \in 0..MaxMembers}

NumberInputs ==
    [Number : NumStrs, VoiceWebhookURL : NumberVoiceURLs,
     SMSWebhookURL : NumberSmsURLs]

MsgServiceInputs ==
    [ID : SvcIDs, Numbers : MemberLists, SMSWebhookURL : ServiceSmsURLs]

\* The checks AddNumber makes before it takes the table (lines 150-165).
NumberValid(n) ==
    /\ ParseOK(n.Number)
    /\ n.SMSWebhookURL # Empty => validateURL(n.SMSWebhookURL)
    /\ n.VoiceWebhookURL # Empty => validateURL(n.VoiceWebhookURL)

MsgServiceValidFirstMember(ms) ==
    /\ HasPrefix(ms.ID, <<"M", "G">>)
    /\ ms.SMSWebhookURL # Empty => validateURL(ms.SMSWebhookURL)
    /\ Len(ms.Numbers) > 0 => ParseOK(ms.Numbers[1])

\* The checks AddMsgService makes before it takes a table (lines 179-194).
MsgServiceValid(ms) ==
    /\ HasPrefix(ms.ID, <<"M", "G">>)
    /\ ms.SMSWebhookURL # Empty => validateURL(ms.SMSWebhookURL)
    /\ \A i \in 1..Len(ms.Numbers) : ParseOK(ms.Numbers[i])

NoArg == [none |-> TRUE]

\* ------------------------------------------------------------ nextID data
\* Prefixes passed to nextID; one is another one followed by a digit.
PrefixSM == <<"S", "M">>
PrefixCA == <<"C", "A">>
PrefixSM0 == <<"S", "M", "0">>
Prefixes == {PrefixSM, PrefixCA, PrefixSM0}

DigitChars == <<"0", "1", "2", "3", "4", "5", "6", "7", "8", "9">>

\* the decimal digits of n, most significant first ("0" for zero)
RECURSIVE Decimal(_)
Decimal(n) ==
    IF n < 10 THEN <<DigitChars[n + 1]>>
    ELSE Append(Decimal(n \div 10), DigitChars[(n % 10) + 1])

\* the verb %032d: zeros on the left up to a width of 32, never a cut
RECURSIVE ZeroPad(_, _)
ZeroPad(d, width) ==
    IF Len(d) >= width THEN d ELSE ZeroPad(<<"0">> \o d, width)

\* fmt.Sprintf("%s%032d", prefix, n)
Sprintf(prefix, n) == prefix \o ZeroPad(Decimal(n), 32)

VARIABLES
    unitPc,          \* per unit of outbound work: "idle", "offered", "running", "done"
    wg,              \* counter of the loop's sync.WaitGroup
    loopPc,          \* position of loop(): "select", then the deferred calls
    lifecycleCtx,    \* "live" or "cancelled": ctx handed to lifecycle tasks
    shutdownCloses,  \* number of close(srv.shutdown) executed
    msgChCloses,     \* number of close(srv.msgCh) executed
    doneCloses,      \* number of close(srv.shutdownDone) executed
    once,            \* srv.once: "fresh", "done"
    closePc,         \* per Close caller: "idle", "do", "recv", "returned"
    waitPc,          \* per WaitInFlight call: "idle", "send", "recv", "retNil", "retErr"
    ctxDone,         \* per WaitInFlight call: its ctx.Done() is closed
    chCloses,        \* per WaitInFlight call: number of close() of the ch it made
    watchPc,         \* watcher spawned for the call: "none", "wait", "done"
    watchCh,         \* the ch captured by that watcher (0: none)
    snap,            \* units the loop had accepted when it accepted the call
    numCh,           \* srv.numbersDB: "full" (the table is in the channel) or "empty"
    svcCh,           \* srv.msgSvcDB: "full" or "empty"
    heap,            \* the Number records allocated so far; a *Number is an index
    numDB,           \* map[string]*Number: number string -> index into heap
    msDB,            \* map[string][]*Number: service ID -> sequence of indices
    procPc,          \* per caller: position inside its routing-store operation
    procArg,         \* per caller: argument of the operation in progress
    procRet,         \* per caller: operation and result of its last completed call
    regNum,          \* history: input of the successful AddNumber, per number
    lastOv,          \* history: latest non-empty service URL applied, per number
    okSvc,           \* history: IDs for which an AddMsgService returned nil
    regSvc,          \* history: input of the AddMsgService that created the key, per ID
    srvId,           \* srv.id, the counter behind nextID
    idPc,            \* per nextID caller: "idle", "add", "fmt"
    idArg,           \* per nextID caller: the prefix it passed
    idVal,           \* per nextID caller: what its atomic.AddUint64 returned
    idSeen,          \* per nextID caller: counters already returned when it called
    issued,          \* history: the calls that returned, in order of return
    msgStateDB,      \* srv.msgStateDB: number of tables sitting in the channel
    callStateDB      \* srv.callStateDB: number of tables sitting in the channel

coordVars == <<unitPc, wg, loopPc, lifecycleCtx, shutdownCloses, msgChCloses,
               doneCloses, once, closePc, waitPc, ctxDone, chCloses, watchPc,
               watchCh, snap>>

storeVars == <<numCh, svcCh, heap, numDB, msDB, procPc, procArg, procRet,
               regNum, lastOv, okSvc, regSvc>>

auxVars == <<srvId, idPc, idArg, idVal, idSeen, issued, msgStateDB, callStateDB>>

vars == <<coordVars, storeVars, auxVars>>

Accepted == {u \in Units : unitPc[u] \in {"running", "done"}}
Running == {u \in Units : unitPc[u] = "running"}

\* NewServer: fresh channels, nothing closed, loop started at its select.
InitCoord ==
    /\ unitPc = [u \in Units |-> "idle"]
    /\ wg = 0
    /\ loopPc = "select"
    /\ lifecycleCtx = "live"
    /\ shutdownCloses = 0
    /\ msgChCloses = 0
    /\ doneCloses = 0
    /\ once = "fresh"
    /\ closePc = [c \in Closers |-> "idle"]
    /\ waitPc = [w \in Waiters |-> "idle"]
    /\ ctxDone = [w \in Waiters |-> FALSE]
    /\ chCloses = [w \in Waiters |-> 0]
    /\ watchPc = [w \in Waiters |-> "none"]
    /\ watchCh = [w \in Waiters |-> 0]
    /\ snap = [w \in Waiters |-> {}]

\* NewServer: each table channel holds one empty table (lines 122-123).
InitStore ==
    /\ numCh = "full"
    /\ svcCh = "full"
    /\ heap = <<>>
    /\ numDB = [k \in {} |-> 0]
    /\ msDB = [k \in {} |-> <<>>]
    /\ procPc = [p \in Procs |-> "idle"]
    /\ procArg = [p \in Procs |-> NoArg]
    /\ procRet = [p \in Procs |-> [op |-> "none", err |-> "nil"]]
    /\ regNum = [k \in {} |-> NoArg]
    /\ lastOv = [k \in ValidNums |-> Empty]
    /\ okSvc = {}
    /\ regSvc = [k \in {} |-> NoArg]

\* NewServer: srv.id is zero; of the two lifecycle-state channels only
\* msgStateDB is sent a table (line 124), callStateDB stays empty.
InitAux ==
    /\ srvId = 0
    /\ idPc = [p \in IdCallers |-> "idle"]
    /\ idArg = [p \in IdCallers |-> Empty]
    /\ idVal = [p \in IdCallers |-> 0]
    /\ idSeen = [p \in IdCallers |-> {}]
    /\ issued = <<>>
    /\ msgStateDB = 1
    /\ callStateDB = 0

Init == InitCoord /\ InitStore /\ InitAux

\* ------------------------------------------------------------ submitters
\* A submitter offers a message on outboundMsgCh or a call on outboundCallCh
\* and parks there (both channels are unbuffered).
Submit(u) ==
    /\ unitPc[u] = "idle"
    /\ unitPc' = [unitPc EXCEPT ![u] = "offered"]
    /\ UNCHANGED <<wg, loopPc, lifecycleCtx, shutdownCloses, msgChCloses,
                   doneCloses, once, closePc, waitPc, ctxDone, chCloses,
                   watchPc, watchCh, snap,
                   storeVars, auxVars>>

\* ------------------------------------------------------------------ loop
\* case <-srv.shutdown: return
LoopShutdown ==
    /\ loopPc = "select"
    /\ shutdownCloses > 0
    /\ loopPc' = "cancel"
    /\ UNCHANGED <<unitPc, wg, lifecycleCtx, shutdownCloses, msgChCloses,
                   doneCloses, once, closePc, waitPc, ctxDone, chCloses,
                   watchPc, watchCh, snap,
                   storeVars, auxVars>>

LoopRecvMsgAnyPc(u) ==
    /\ u \in Msgs
    /\ unitPc[u] = "offered"
    /\ wg' = wg + 1
    /\ unitPc' = [unitPc EXCEPT ![u] = "running"]
    /\ UNCHANGED <<loopPc, lifecycleCtx, shutdownCloses, msgChCloses,
                   doneCloses, once, closePc, waitPc, ctxDone, chCloses,
                   watchPc, watchCh, snap,
                   storeVars, auxVars>>

LoopRecvMsgWhenDrained(u) ==
    /\ loopPc = "select"
    /\ wg = 0
    /\ u \in Msgs
    /\ unitPc[u] = "offered"
    /\ wg' = wg + 1
    /\ unitPc' = [unitPc EXCEPT ![u] = "running"]
    /\ UNCHANGED <<loopPc, lifecycleCtx, shutdownCloses, msgChCloses,
                   doneCloses, once, closePc, waitPc, ctxDone, chCloses,
                   watchPc, watchCh, snap,
                   storeVars, auxVars>>

\* case sms := <-srv.outboundMsgCh: wg.Add(1); go func() {...}()
\* The select has no case for outboundCallCh.
LoopRecvMsg(u) ==
    /\ loopPc = "select"
    /\ u \in Msgs
    /\ unitPc[u] = "offered"
    /\ wg' = wg + 1
    /\ unitPc' = [unitPc EXCEPT ![u] = "running"]
    /\ UNCHANGED <<loopPc, lifecycleCtx, shutdownCloses, msgChCloses,
                   doneCloses, once, closePc, waitPc, ctxDone, chCloses,
                   watchPc, watchCh, snap,
                   storeVars, auxVars>>

LoopRecvWaitAnyPc(w) ==
    /\ waitPc[w] = "send"
    /\ waitPc' = [waitPc EXCEPT ![w] = "recv"]
    /\ watchPc' = [watchPc EXCEPT ![w] = "wait"]
    /\ watchCh' = [watchCh EXCEPT ![w] = w]
    /\ snap' = [snap EXCEPT ![w] = Accepted]
    /\ UNCHANGED <<unitPc, wg, loopPc, lifecycleCtx, shutdownCloses,
                   msgChCloses, doneCloses, once, closePc, ctxDone, chCloses,
                   storeVars, auxVars>>

\* case ch := <-srv.waitInFlight: go func() { wg.Wait(); close(ch) }()
\* Joint step with the send of WaitInFlight's first select.
LoopRecvWait(w) ==
    /\ loopPc = "select"
    /\ waitPc[w] = "send"
    /\ waitPc' = [waitPc EXCEPT ![w] = "recv"]
    /\ watchPc' = [watchPc EXCEPT ![w] = "wait"]
    /\ watchCh' = [watchCh EXCEPT ![w] = w]
    /\ snap' = [snap EXCEPT ![w] = Accepted]
    /\ UNCHANGED <<unitPc, wg, loopPc, lifecycleCtx, shutdownCloses,
                   msgChCloses, doneCloses, once, closePc, ctxDone, chCloses,
                   storeVars, auxVars>>

\* deferred cancel()
LoopCancel ==
    /\ loopPc = "cancel"
    /\ lifecycleCtx' = "cancelled"
    /\ loopPc' = "wgWait"
    /\ UNCHANGED <<unitPc, wg, shutdownCloses, msgChCloses, doneCloses, once,
                   closePc, waitPc, ctxDone, chCloses, watchPc, watchCh, snap,
                   storeVars, auxVars>>

LoopWgWaitNoWait ==
    /\ loopPc = "wgWait"
    /\ loopPc' = "closeMsgCh"
    /\ UNCHANGED <<unitPc, wg, lifecycleCtx, shutdownCloses, msgChCloses,
                   doneCloses, once, closePc, waitPc, ctxDone, chCloses,
                   watchPc, watchCh, snap,
                   storeVars, auxVars>>

\* deferred wg.Wait()
LoopWgWait ==
    /\ loopPc = "wgWait"
    /\ wg = 0
    /\ loopPc' = "closeMsgCh"
    /\ UNCHANGED <<unitPc, wg, lifecycleCtx, shutdownCloses, msgChCloses,
                   doneCloses, once, closePc, waitPc, ctxDone, chCloses,
                   watchPc, watchCh, snap,
                   storeVars, auxVars>>

LoopCloseMsgChBeforeWait ==
    /\ loopPc \in {"wgWait", "closeMsgCh"}
    /\ msgChCloses' = msgChCloses + 1
    /\ loopPc' = "closeDone"
    /\ UNCHANGED <<unitPc, wg, lifecycleCtx, shutdownCloses, doneCloses, once,
                   closePc, waitPc, ctxDone, chCloses, watchPc, watchCh, snap,
                   storeVars, auxVars>>

\* deferred close(srv.msgCh)
LoopCloseMsgCh ==
    /\ loopPc = "closeMsgCh"
    /\ msgChCloses' = msgChCloses + 1
    /\ loopPc' = "closeDone"
    /\ UNCHANGED <<unitPc, wg, lifecycleCtx, shutdownCloses, doneCloses, once,
                   closePc, waitPc, ctxDone, chCloses, watchPc, watchCh, snap,
                   storeVars, auxVars>>

\* deferred close(srv.shutdownDone); loop() returns
LoopCloseDone ==
    /\ loopPc = "closeDone"
    /\ doneCloses' = doneCloses + 1
    /\ loopPc' = "exited"
    /\ UNCHANGED <<unitPc, wg, lifecycleCtx, shutdownCloses, msgChCloses, once,
                   closePc, waitPc, ctxDone, chCloses, watchPc, watchCh, snap,
                   storeVars, auxVars>>

\* ------------------------------------------------------- lifecycle tasks
\* go func() { sms.lifecycle(ctx); wg.Done() }(): the task returns and
\* decrements the WaitGroup.
TaskDone(u) ==
    /\ unitPc[u] = "running"
    /\ unitPc' = [unitPc EXCEPT ![u] = "done"]
    /\ wg' = wg - 1
    /\ UNCHANGED <<loopPc, lifecycleCtx, shutdownCloses, msgChCloses,
                   doneCloses, once, closePc, waitPc, ctxDone, chCloses,
                   watchPc, watchCh, snap,
                   storeVars, auxVars>>

\* ---------------------------------------------------------------- watchers
WatcherNoWait(w) ==
    /\ watchPc[w] = "wait"
    /\ chCloses' = [chCloses EXCEPT ![watchCh[w]] = @ + 1]
    /\ watchPc' = [watchPc EXCEPT ![w] = "done"]
    /\ UNCHANGED <<unitPc, wg, loopPc, lifecycleCtx, shutdownCloses,
                   msgChCloses, doneCloses, once, closePc, waitPc, ctxDone,
                   watchCh, snap,
                   storeVars, auxVars>>

WatcherSharedCh(w) ==
    /\ watchPc[w] = "wait"
    /\ wg = 0
    /\ LET last == CHOOSE x \in Waiters :
                      /\ watchCh[x] # 0
                      /\ \A y \in Waiters : watchCh[y] # 0 => y <= x
       IN  chCloses' = [chCloses EXCEPT ![last] = @ + 1]
    /\ watchPc' = [watchPc EXCEPT ![w] = "done"]
    /\ UNCHANGED <<unitPc, wg, loopPc, lifecycleCtx, shutdownCloses,
                   msgChCloses, doneCloses, once, closePc, waitPc, ctxDone,
                   watchCh, snap,
                   storeVars, auxVars>>

\* go func() { wg.Wait(); close(ch) }(): Wait returns at an instant at which
\* the counter is zero, the watcher closes the ch it captured and ends.
Watcher(w) ==
    /\ watchPc[w] = "wait"
    /\ wg = 0
    /\ chCloses' = [chCloses EXCEPT ![watchCh[w]] = @ + 1]
    /\ watchPc' = [watchPc EXCEPT ![w] = "done"]
    /\ UNCHANGED <<unitPc, wg, loopPc, lifecycleCtx, shutdownCloses,
                   msgChCloses, doneCloses, once, closePc, waitPc, ctxDone,
                   watchCh, snap,
                   storeVars, auxVars>>

\* ------------------------------------------------------------------ Close
\* A caller enters Close and calls srv.once.Do.
CloseCall(c) ==
    /\ closePc[c] = "idle"
    /\ closePc' = [closePc EXCEPT ![c] = "do"]
    /\ UNCHANGED <<unitPc, wg, loopPc, lifecycleCtx, shutdownCloses,
                   msgChCloses, doneCloses, once, waitPc, ctxDone, chCloses,
                   watchPc, watchCh, snap,
                   storeVars, auxVars>>

OnceDoUnguarded(c) ==
    /\ closePc[c] = "do"
    /\ shutdownCloses' = shutdownCloses + 1
    /\ once' = "done"
    /\ closePc' = [closePc EXCEPT ![c] = "recv"]
    /\ UNCHANGED <<unitPc, wg, loopPc, lifecycleCtx, msgChCloses, doneCloses,
                   waitPc, ctxDone, chCloses, watchPc, watchCh, snap,
                   storeVars, auxVars>>

\* once.Do(func() { close(srv.shutdown) }) for the first caller: it runs f.
OnceDo(c) ==
    /\ closePc[c] = "do"
    /\ once = "fresh"
    /\ shutdownCloses' = shutdownCloses + 1
    /\ once' = "done"
    /\ closePc' = [closePc EXCEPT ![c] = "recv"]
    /\ UNCHANGED <<unitPc, wg, loopPc, lifecycleCtx, msgChCloses, doneCloses,
                   waitPc, ctxDone, chCloses, watchPc, watchCh, snap,
                   storeVars, auxVars>>

\* once.Do for every other caller: returns once f has returned.
OncePass(c) ==
    /\ closePc[c] = "do"
    /\ once = "done"
    /\ closePc' = [closePc EXCEPT ![c] = "recv"]
    /\ UNCHANGED <<unitPc, wg, loopPc, lifecycleCtx, shutdownCloses,
                   msgChCloses, doneCloses, once, waitPc, ctxDone, chCloses,
                   watchPc, watchCh, snap,
                   storeVars, auxVars>>

\* <-srv.shutdownDone; return nil
CloseReturn(c) ==
    /\ closePc[c] = "recv"
    /\ doneCloses > 0
    /\ closePc' = [closePc EXCEPT ![c] = "returned"]
    /\ UNCHANGED <<unitPc, wg, loopPc, lifecycleCtx, shutdownCloses,
                   msgChCloses, doneCloses, once, waitPc, ctxDone, chCloses,
                   watchPc, watchCh, snap,
                   storeVars, auxVars>>

\* ----------------------------------------------------------- WaitInFlight
\* ch := make(chan struct{}); the caller reaches the first select.
WaitCall(w) ==
    /\ waitPc[w] = "idle"
    /\ waitPc' = [waitPc EXCEPT ![w] = "send"]
    /\ UNCHANGED <<unitPc, wg, loopPc, lifecycleCtx, shutdownCloses,
                   msgChCloses, doneCloses, once, closePc, ctxDone, chCloses,
                   watchPc, watchCh, snap,
                   storeVars, auxVars>>

\* The caller's context reaches its deadline or is cancelled.
CtxExpire(w) ==
    /\ waitPc[w] \in {"send", "recv"}
    /\ ~ctxDone[w]
    /\ ctxDone' = [ctxDone EXCEPT ![w] = TRUE]
    /\ UNCHANGED <<unitPc, wg, loopPc, lifecycleCtx, shutdownCloses,
                   msgChCloses, doneCloses, once, closePc, waitPc, chCloses,
                   watchPc, watchCh, snap,
                   storeVars, auxVars>>

\* first select, case <-ctx.Done(): return ctx.Err()
WaitCtxErrSend(w) ==
    /\ waitPc[w] = "send"
    /\ ctxDone[w]
    /\ waitPc' = [waitPc EXCEPT ![w] = "retErr"]
    /\ UNCHANGED <<unitPc, wg, loopPc, lifecycleCtx, shutdownCloses,
                   msgChCloses, doneCloses, once, closePc, ctxDone, chCloses,
                   watchPc, watchCh, snap,
                   storeVars, auxVars>>

WaitRecvChAlways(w) ==
    /\ waitPc[w] = "recv"
    /\ waitPc' = [waitPc EXCEPT ![w] = "retNil"]
    /\ UNCHANGED <<unitPc, wg, loopPc, lifecycleCtx, shutdownCloses,
                   msgChCloses, doneCloses, once, closePc, ctxDone, chCloses,
                   watchPc, watchCh, snap,
                   storeVars, auxVars>>

\* second select, case <-ch: return nil
WaitRecvCh(w) ==
    /\ waitPc[w] = "recv"
    /\ chCloses[w] > 0
    /\ waitPc' = [waitPc EXCEPT ![w] = "retNil"]
    /\ UNCHANGED <<unitPc, wg, loopPc, lifecycleCtx, shutdownCloses,
                   msgChCloses, doneCloses, once, closePc, ctxDone, chCloses,
                   watchPc, watchCh, snap,
                   storeVars, auxVars>>

WaitCtxErrRecvAfterCh(w) ==
    /\ waitPc[w] = "recv"
    /\ ctxDone[w]
    /\ chCloses[w] > 0
    /\ waitPc' = [waitPc EXCEPT ![w] = "retErr"]
    /\ UNCHANGED <<unitPc, wg, loopPc, lifecycleCtx, shutdownCloses,
                   msgChCloses, doneCloses, once, closePc, ctxDone, chCloses,
                   watchPc, watchCh, snap,
                   storeVars, auxVars>>

\* second select, case <-ctx.Done(): return ctx.Err()
WaitCtxErrRecv(w) ==
    /\ waitPc[w] = "recv"
    /\ ctxDone[w]
    /\ waitPc' = [waitPc EXCEPT ![w] = "retErr"]
    /\ UNCHANGED <<unitPc, wg, loopPc, lifecycleCtx, shutdownCloses,
                   msgChCloses, doneCloses, once, closePc, ctxDone, chCloses,
                   watchPc, watchCh, snap,
                   storeVars, auxVars>>

\* ---------------------------------------------------------- routing store
Has(db, k) == k \in DOMAIN db

Put(db, k, v) == [x \in DOMAIN db \cup {k} |-> IF x = k THEN v ELSE db[x]]

Ret(op, err) == [op |-> op, err |-> err]

\* what numberSvc(id) returns on table db: the stored slice, or nil (empty)
numberSvc(db, id) == IF Has(db, id) THEN db[id] ELSE <<>>

\* AddNumber, lines 150-165: a call that fails validation returns before it
\* touches the table; a valid one goes on to receive from srv.numbersDB.
AddNumberCall(p, n) ==
    /\ procPc[p] = "idle"
    /\ IF NumberValid(n)
       THEN /\ procPc' = [procPc EXCEPT ![p] = "an_recv"]
            /\ procArg' = [procArg EXCEPT ![p] = n]
            /\ procRet' = [procRet EXCEPT ![p] = Ret("none", "nil")]
       ELSE /\ procRet' = [procRet EXCEPT ![p] = Ret("AddNumber", "invalid")]
            /\ UNCHANGED <<procPc, procArg>>
    /\ UNCHANGED <<numCh, svcCh, heap, numDB, msDB, regNum, lastOv, okSvc, regSvc>>
    /\ UNCHANGED <<coordVars, auxVars>>

\* db := <-srv.numbersDB (line 167)
AddNumberTake(p) ==
    /\ procPc[p] = "an_recv"
    /\ numCh = "full"
    /\ numCh' = "empty"
    /\ procPc' = [procPc EXCEPT ![p] = "an_hold"]
    /\ UNCHANGED <<svcCh, heap, numDB, msDB, procArg, procRet, regNum, lastOv,
                   okSvc, regSvc>>
    /\ UNCHANGED <<coordVars, auxVars>>

\* lines 168-174: duplicate check, insert of &n, table sent back
AddNumberBody(p) ==
    /\ procPc[p] = "an_hold"
    /\ numCh = "empty"
    /\ numCh' = "full"
    /\ LET n == procArg[p] IN
       IF Has(numDB, n.Number)
       THEN /\ procRet' = [procRet EXCEPT ![p] = Ret("AddNumber", "duplicate")]
            /\ UNCHANGED <<heap, numDB, regNum>>
       ELSE /\ heap' = Append(heap, n)
            /\ numDB' = Put(numDB, n.Number, Len(heap) + 1)
            /\ regNum' = Put(regNum, n.Number, n)
            /\ procRet' = [procRet EXCEPT ![p] = Ret("AddNumber", "nil")]
    /\ procPc' = [procPc EXCEPT ![p] = "idle"]
    /\ procArg' = [procArg EXCEPT ![p] = NoArg]
    /\ UNCHANGED <<svcCh, msDB, lastOv, okSvc, regSvc>>
    /\ UNCHANGED <<coordVars, auxVars>>

\* AddMsgService, lines 179-194
AddMsgServiceCall(p, ms) ==
    /\ procPc[p] = "idle"
    /\ IF MsgServiceValid(ms)
       THEN /\ procPc' = [procPc EXCEPT ![p] = "ms_recvSvc"]
            /\ procArg' = [procArg EXCEPT ![p] = ms]
            /\ procRet' = [procRet EXCEPT ![p] = Ret("none", "nil")]
       ELSE /\ procRet' = [procRet EXCEPT ![p] = Ret("AddMsgService", "invalid")]
            /\ UNCHANGED <<procPc, procArg>>
    /\ UNCHANGED <<numCh, svcCh, heap, numDB, msDB, regNum, lastOv, okSvc, regSvc>>
    /\ UNCHANGED <<coordVars, auxVars>>

\* msDB := <-srv.msgSvcDB (line 196)
AddMsgServiceTakeSvc(p) ==
    /\ procPc[p] = "ms_recvSvc"
    /\ svcCh = "full"
    /\ svcCh' = "empty"
    /\ procPc' = [procPc EXCEPT ![p] = "ms_holdSvc"]
    /\ UNCHANGED <<numCh, heap, numDB, msDB, procArg, procRet, regNum, lastOv,
                   okSvc, regSvc>>
    /\ UNCHANGED <<coordVars, auxVars>>

AddMsgServiceDupKeepsTable(p) ==
    /\ procPc[p] = "ms_holdSvc"
    /\ Has(msDB, procArg[p].ID)
    /\ procRet' = [procRet EXCEPT ![p] = Ret("AddMsgService", "duplicate")]
    /\ procPc' = [procPc EXCEPT ![p] = "idle"]
    /\ procArg' = [procArg EXCEPT ![p] = NoArg]
    /\ UNCHANGED <<numCh, svcCh, heap, numDB, msDB, regNum, lastOv, okSvc, regSvc>>
    /\ UNCHANGED <<coordVars, auxVars>>

\* lines 197-200: the ID is a key of the table: send it back, return the error
AddMsgServiceDup(p) ==
    /\ procPc[p] = "ms_holdSvc"
    /\ Has(msDB, procArg[p].ID)
    /\ svcCh = "empty"
    /\ svcCh' = "full"
    /\ procRet' = [procRet EXCEPT ![p] = Ret("AddMsgService", "duplicate")]
    /\ procPc' = [procPc EXCEPT ![p] = "idle"]
    /\ procArg' = [procArg EXCEPT ![p] = NoArg]
    /\ UNCHANGED <<numCh, heap, numDB, msDB, regNum, lastOv, okSvc, regSvc>>
    /\ UNCHANGED <<coordVars, auxVars>>

\* numDB := <-srv.numbersDB (line 202), holding the service table
AddMsgServiceTakeNum(p) ==
    /\ procPc[p] = "ms_holdSvc"
    /\ ~Has(msDB, procArg[p].ID)
    /\ numCh = "full"
    /\ numCh' = "empty"
    /\ procPc' = [procPc EXCEPT ![p] = "ms_holdBoth"]
    /\ UNCHANGED <<svcCh, heap, numDB, msDB, procArg, procRet, regNum, lastOv,
                   okSvc, regSvc>>
    /\ UNCHANGED <<coordVars, auxVars>>

MemberStepFresh(st, nStr, url) ==
    LET h1 == Append(st.heap, [Number |-> nStr, VoiceWebhookURL |-> Empty,
                               SMSWebhookURL |-> url])
    IN  [heap |-> h1, numDB |-> Put(st.numDB, nStr, Len(h1)),
         list |-> Append(st.list, Len(h1))]

\* One iteration of the loop of lines 203-216 on st = [heap, numDB, list].
MemberStep(st, nStr, url) ==
    LET known == Has(st.numDB, nStr)
        h1 == IF known THEN st.heap
              ELSE Append(st.heap, [Number |-> nStr, VoiceWebhookURL |-> Empty,
                                    SMSWebhookURL |-> Empty])
        d1 == IF known THEN st.numDB ELSE Put(st.numDB, nStr, Len(st.heap) + 1)
        a  == d1[nStr]
        h2 == IF url = Empty THEN h1
              ELSE [h1 EXCEPT ![a].SMSWebhookURL = url]
    IN  [heap |-> h2, numDB |-> d1, list |-> Append(st.list, a)]

\* The loop of lines 203-216 over ms.Numbers, from member i on.
RECURSIVE MemberLoop(_, _, _)
MemberLoop(st, ms, i) ==
    IF i > Len(ms.Numbers) THEN st
    ELSE MemberLoop(MemberStep(st, ms.Numbers[i], ms.SMSWebhookURL), ms, i + 1)

\* lines 203-220: the loop, both tables sent back, return nil.
\* msDB[ms.ID] is assigned only by the append of line 209.
AddMsgServiceBody(p) ==
    /\ procPc[p] = "ms_holdBoth"
    /\ numCh = "empty" /\ svcCh = "empty"
    /\ LET ms == procArg[p]
           st == MemberLoop([heap |-> heap, numDB |-> numDB, list |-> <<>>], ms, 1)
       IN  /\ heap' = st.heap
           /\ numDB' = st.numDB
           /\ msDB' = IF st.list = <<>> THEN msDB ELSE Put(msDB, ms.ID, st.list)
           /\ lastOv' = [k \in ValidNums |->
                           IF /\ ms.SMSWebhookURL # Empty
                              /\ \E i \in 1..Len(ms.Numbers) : ms.Numbers[i] = k
                           THEN ms.SMSWebhookURL ELSE lastOv[k]]
           /\ okSvc' = okSvc \cup {ms.ID}
           /\ regSvc' = IF st.list = <<>> THEN regSvc ELSE Put(regSvc, ms.ID, ms)
    /\ numCh' = "full"
    /\ svcCh' = "full"
    /\ procRet' = [procRet EXCEPT ![p] = Ret("AddMsgService", "nil")]
    /\ procPc' = [procPc EXCEPT ![p] = "idle"]
    /\ procArg' = [procArg EXCEPT ![p] = NoArg]
    /\ UNCHANGED regNum
    /\ UNCHANGED <<coordVars, auxVars>>

\* One iteration of the loop of lines 203-216, made on the tables the caller
\* holds: the member it handles is the one after those already appended to
\* msDB[ms.ID] (the key was absent when the loop started).
AddMsgServiceIter(p) ==
    /\ procPc[p] = "ms_holdBoth"
    /\ LET ms == procArg[p]
           done == numberSvc(msDB, ms.ID)
       IN  /\ Len(done) < Len(ms.Numbers)
           /\ LET st == MemberStep([heap |-> heap, numDB |-> numDB, list |-> done],
                                   ms.Numbers[Len(done) + 1], ms.SMSWebhookURL)
              IN  /\ heap' = st.heap
                  /\ numDB' = st.numDB
                  /\ msDB' = Put(msDB, ms.ID, st.list)
    /\ UNCHANGED <<numCh, svcCh, procPc, procArg, procRet, regNum, lastOv,
                   okSvc, regSvc>>
    /\ UNCHANGED <<coordVars, auxVars>>

\* lines 217-220 after the last iteration: both tables sent back, return nil
AddMsgServiceReturn(p) ==
    /\ procPc[p] = "ms_holdBoth"
    /\ numCh = "empty" /\ svcCh = "empty"
    /\ LET ms == procArg[p]
       IN  /\ Len(numberSvc(msDB, ms.ID)) = Len(ms.Numbers)
           /\ lastOv' = [k \in ValidNums |->
                           IF /\ ms.SMSWebhookURL # Empty
                              /\ \E i \in 1..Len(ms.Numbers) : ms.Numbers[i] = k
                           THEN ms.SMSWebhookURL ELSE lastOv[k]]
           /\ okSvc' = okSvc \cup {ms.ID}
           /\ regSvc' = IF ms.Numbers = <<>> THEN regSvc ELSE Put(regSvc, ms.ID, ms)
    /\ numCh' = "full"
    /\ svcCh' = "full"
    /\ procRet' = [procRet EXCEPT ![p] = Ret("AddMsgService", "nil")]
    /\ procPc' = [procPc EXCEPT ![p] = "idle"]
    /\ procArg' = [procArg EXCEPT ![p] = NoArg]
    /\ UNCHANGED <<heap, numDB, msDB, regNum>>
    /\ UNCHANGED <<coordVars, auxVars>>

\* number(s): db := <-srv.numbersDB (line 134)
NumberTake(p, k) ==
    /\ procPc[p] = "idle"
    /\ numCh = "full"
    /\ numCh' = "empty"
    /\ procPc' = [procPc EXCEPT ![p] = "n_hold"]
    /\ procArg' = [procArg EXCEPT ![p] = k]
    /\ procRet' = [procRet EXCEPT ![p] = Ret("none", "nil")]
    /\ UNCHANGED <<svcCh, heap, numDB, msDB, regNum, lastOv, okSvc, regSvc>>
    /\ UNCHANGED <<coordVars, auxVars>>

\* what number(k) returns on table db: the stored pointer, or nil (0)
number(db, k) == IF Has(db, k) THEN db[k] ELSE 0

NumberBodyTakesSvc(p) ==
    /\ procPc[p] = "n_hold"
    /\ svcCh = "full"
    /\ numCh = "empty"
    /\ numCh' = "full"
    /\ procRet' = [procRet EXCEPT ![p] = Ret("number", "nil")]
    /\ procPc' = [procPc EXCEPT ![p] = "idle"]
    /\ procArg' = [procArg EXCEPT ![p] = NoArg]
    /\ UNCHANGED <<svcCh, heap, numDB, msDB, regNum, lastOv, okSvc, regSvc>>
    /\ UNCHANGED <<coordVars, auxVars>>

\* lines 135-137
NumberBody(p) ==
    /\ procPc[p] = "n_hold"
    /\ numCh = "empty"
    /\ numCh' = "full"
    /\ procRet' = [procRet EXCEPT ![p] = Ret("number", "nil")]
    /\ procPc' = [procPc EXCEPT ![p] = "idle"]
    /\ procArg' = [procArg EXCEPT ![p] = NoArg]
    /\ UNCHANGED <<svcCh, heap, numDB, msDB, regNum, lastOv, okSvc, regSvc>>
    /\ UNCHANGED <<coordVars, auxVars>>

NumberSvcTakeNoWait(p, id) ==
    /\ procPc[p] = "idle"
    /\ svcCh' = "empty"
    /\ procPc' = [procPc EXCEPT ![p] = "s_hold"]
    /\ procArg' = [procArg EXCEPT ![p] = id]
    /\ procRet' = [procRet EXCEPT ![p] = Ret("none", "nil")]
    /\ UNCHANGED <<numCh, heap, numDB, msDB, regNum, lastOv, okSvc, regSvc>>
    /\ UNCHANGED <<coordVars, auxVars>>

\* numberSvc(id): db := <-srv.msgSvcDB (line 141)
NumberSvcTake(p, id) ==
    /\ procPc[p] = "idle"
    /\ svcCh = "full"
    /\ svcCh' = "empty"
    /\ procPc' = [procPc EXCEPT ![p] = "s_hold"]
    /\ procArg' = [procArg EXCEPT ![p] = id]
    /\ procRet' = [procRet EXCEPT ![p] = Ret("none", "nil")]
    /\ UNCHANGED <<numCh, heap, numDB, msDB, regNum, lastOv, okSvc, regSvc>>
    /\ UNCHANGED <<coordVars, auxVars>>

\* lines 142-145
NumberSvcBody(p) ==
    /\ procPc[p] = "s_hold"
    /\ svcCh = "empty"
    /\ svcCh' = "full"
    /\ procRet' = [procRet EXCEPT ![p] = Ret("numberSvc", "nil")]
    /\ procPc' = [procPc EXCEPT ![p] = "idle"]
    /\ procArg' = [procArg EXCEPT ![p] = NoArg]
    /\ UNCHANGED <<numCh, heap, numDB, msDB, regNum, lastOv, okSvc, regSvc>>
    /\ UNCHANGED <<coordVars, auxVars>>

\* ------------------------------------------------------------- nextID
\* A caller enters nextID(prefix).  The calls made in all are capped.
NextIDCall(p, prefix) ==
    /\ idPc[p] = "idle"
    /\ srvId + Cardinality({q \in IdCallers : idPc[q] = "add"}) < MaxIDs
    /\ idPc' = [idPc EXCEPT ![p] = "add"]
    /\ idArg' = [idArg EXCEPT ![p] = prefix]
    /\ idSeen' = [idSeen EXCEPT ![p] = {issued[i].n : i \in DOMAIN issued}]
    /\ UNCHANGED <<srvId, idVal, issued, msgStateDB, callStateDB>>
    /\ UNCHANGED <<coordVars, storeVars>>

NextIDAddLost(p) ==
    /\ idPc[p] = "add"
    /\ srvId' = IF \E q \in IdCallers : idPc[q] = "fmt" THEN srvId ELSE srvId + 1
    /\ idVal' = [idVal EXCEPT ![p] = srvId']
    /\ idPc' = [idPc EXCEPT ![p] = "fmt"]
    /\ UNCHANGED <<idArg, idSeen, issued, msgStateDB, callStateDB>>
    /\ UNCHANGED <<coordVars, storeVars>>

\* atomic.AddUint64(&srv.id, 1): one indivisible read-modify-write that
\* yields the new value (a uint64; the cap keeps it far from 2^64).
NextIDAdd(p) ==
    /\ idPc[p] = "add"
    /\ srvId' = srvId + 1
    /\ idVal' = [idVal EXCEPT ![p] = srvId']
    /\ idPc' = [idPc EXCEPT ![p] = "fmt"]
    /\ UNCHANGED <<idArg, idSeen, issued, msgStateDB, callStateDB>>
    /\ UNCHANGED <<coordVars, storeVars>>

\* return fmt.Sprintf("%s%032d", prefix, <the value added>)
NextIDReturn(p) ==
    /\ idPc[p] = "fmt"
    /\ issued' = Append(issued, [prefix |-> idArg[p], n |-> idVal[p],
                                  seen |-> idSeen[p],
                                  s |-> Sprintf(idArg[p], idVal[p])])
    /\ idPc' = [idPc EXCEPT ![p] = "idle"]
    /\ UNCHANGED <<srvId, idArg, idVal, idSeen, msgStateDB, callStateDB>>
    /\ UNCHANGED <<coordVars, storeVars>>

\* ------------------------------------------------------- specifications
Next ==
    \/ \E u \in Units : Submit(u)
    \/ LoopShutdown
    \/ \E u \in Units : LoopRecvMsg(u)
    \/ \E w \in Waiters : LoopRecvWait(w)
    \/ LoopCancel
    \/ LoopWgWait
    \/ LoopCloseMsgCh
    \/ LoopCloseDone
    \/ \E u \in Units : TaskDone(u)
    \/ \E w \in Waiters : Watcher(w)
    \/ \E c \in Closers : CloseCall(c)
    \/ \E c \in Closers : OnceDo(c)
    \/ \E c \in Closers : OncePass(c)
    \/ \E c \in Closers : CloseReturn(c)
    \/ \E w \in Waiters : WaitCall(w)
    \/ \E w \in Waiters : CtxExpire(w)
    \/ \E w \in Waiters : WaitCtxErrSend(w)
    \/ \E w \in Waiters : WaitRecvCh(w)
    \/ \E w \in Waiters : WaitCtxErrRecv(w)

Spec == Init /\ [][Next]_vars

\* The routing store driven by one client that makes its calls one after
\* another, with every input of NumberInputs and MsgServiceInputs.
Client == {p \in Procs : \A q \in Procs : p <= q}

StoreNext ==
    \/ \E p \in Client, n \in NumberInputs : AddNumberCall(p, n)
    \/ \E p \in Client : AddNumberTake(p)
    \/ \E p \in Client : AddNumberBody(p)
    \/ \E p \in Client, ms \in MsgServiceInputs : AddMsgServiceCall(p, ms)
    \/ \E p \in Client : AddMsgServiceTakeSvc(p)
    \/ \E p \in Client : AddMsgServiceDup(p)
    \/ \E p \in Client : AddMsgServiceTakeNum(p)
    \/ \E p \in Client : AddMsgServiceBody(p)
    \/ \E p \in Client, k \in NumStrs : NumberTake(p, k)
    \/ \E p \in Client : NumberBody(p)
    \/ \E p \in Client, id \in SvcIDs : NumberSvcTake(p, id)
    \/ \E p \in Client : NumberSvcBody(p)

StoreSpec == Init /\ [][StoreNext]_vars

\* The routing store driven by one client that registers two messaging
\* services over the same numbers: valid inputs only, no voice webhooks.
SvcMG2 == <<"M", "G", "2">>
ShareSvcIDs == {SvcMG1, SvcMG2}

ShareNumberInputs ==
    [Number : ValidNums, VoiceWebhookURL : {Empty}, SMSWebhookURL : {Empty, UrlA}]

ShareMsgServiceInputs ==
    [ID : ShareSvcIDs,
     Numbers : UNION {[1..n -> ValidNums] : n \in 0..MaxMembers},
     SMSWebhookURL : {Empty, UrlA, UrlB}]

ShareNext ==
    \/ \E p \in Client, n \in ShareNumberInputs : AddNumberCall(p, n)
    \/ \E p \in Client : AddNumberTake(p)
    \/ \E p \in Client : AddNumberBody(p)
    \/ \E p \in Client, ms \in ShareMsgServiceInputs : AddMsgServiceCall(p, ms)
    \/ \E p \in Client : AddMsgServiceTakeSvc(p)
    \/ \E p \in Client : AddMsgServiceDup(p)
    \/ \E p \in Client : AddMsgServiceTakeNum(p)
    \/ \E p \in Client : AddMsgServiceBody(p)
    \/ \E p \in Client, sid \in ShareSvcIDs : NumberSvcTake(p, sid)
    \/ \E p \in Client : NumberSvcBody(p)

ShareSpec == Init /\ [][ShareNext]_vars

\* The routing store under concurrent callers, the loop of AddMsgService
\* taken one iteration at a time: two numbers, one service ID, valid inputs.
ConcNumberInputs ==
    {[Number |-> "+15550001", VoiceWebhookURL |-> Empty, SMSWebhookURL |-> UrlA],
     [Number |-> "+15550002", VoiceWebhookURL |-> Empty, SMSWebhookURL |-> Empty]}

ConcMsgServiceInputs ==
    [ID : {SvcMG1},
     Numbers : {<<>>, <<"+15550001", "+15550002">>, <<"+15550002", "+15550001">>},
     SMSWebhookURL : {Empty, UrlB}]

ConcNext ==
    \/ \E p \in Procs, n \in ConcNumberInputs : AddNumberCall(p, n)
    \/ \E p \in Procs : AddNumberTake(p)
    \/ \E p \in Procs : AddNumberBody(p)
    \/ \E p \in Procs, ms \in ConcMsgServiceInputs : AddMsgServiceCall(p, ms)
    \/ \E p \in Procs : AddMsgServiceTakeSvc(p)
    \/ \E p \in Procs : AddMsgServiceDup(p)
    \/ \E p \in Procs : AddMsgServiceTakeNum(p)
    \/ \E p \in Procs : AddMsgServiceIter(p)
    \/ \E p \in Procs : AddMsgServiceReturn(p)
    \/ \E p \in Procs, k \in ValidNums : NumberTake(p, k)
    \/ \E p \in Procs : NumberBody(p)
    \/ \E p \in Procs : NumberSvcTake(p, SvcMG1)
    \/ \E p \in Procs : NumberSvcBody(p)

ConcSpec == Init /\ [][ConcNext]_vars

\* The steps a caller makes inside an operation once it has called it.
ProcStep(p) ==
    \/ AddNumberTake(p) \/ AddNumberBody(p)
    \/ AddMsgServiceTakeSvc(p) \/ AddMsgServiceDup(p)
    \/ AddMsgServiceTakeNum(p) \/ AddMsgServiceIter(p)
    \/ AddMsgServiceReturn(p)
    \/ NumberBody(p) \/ NumberSvcBody(p)

\* Every caller inside an operation keeps being scheduled, and a caller
\* parked on a table channel gets the table when it keeps coming back: the
\* runtime serves the receivers parked on a channel in the order they came.
\* When an operation is called is left to the environment.
ConcFairSpec == ConcSpec /\ \A p \in Procs : SF_vars(ProcStep(p))

\* Concurrent callers of nextID.
IdNext ==
    \/ \E p \in IdCallers, prefix \in Prefixes : NextIDCall(p, prefix)
    \/ \E p \in IdCallers : NextIDAdd(p)
    \/ \E p \in IdCallers : NextIDReturn(p)

IdSpec == Init /\ [][IdNext]_vars

\* One goroutine, one fairness condition: the Go scheduler keeps running
\* every goroutine that can take a step.  LoopStep is loop(); TaskDone(u)
\* the goroutine of lines 265-268 (its lifecycle call is assumed to return);
\* Watcher(w) the goroutine of lines 270-273; CloseStep(c) and
\* WaitStep(w) a caller inside Close or WaitInFlight.  Calls into the server
\* (Submit, CloseCall, WaitCall) and context expiry are left to the
\* environment and carry no fairness.
LoopStep ==
    \/ LoopShutdown
    \/ \E u \in Units : LoopRecvMsg(u)
    \/ \E w \in Waiters : LoopRecvWait(w)
    \/ LoopCancel
    \/ LoopWgWait
    \/ LoopCloseMsgCh
    \/ LoopCloseDone

CloseStep(c) == OnceDo(c) \/ OncePass(c) \/ CloseReturn(c)

WaitStep(w) == WaitCtxErrSend(w) \/ WaitRecvCh(w) \/ WaitCtxErrRecv(w)

FairSpec ==
    /\ Spec
    /\ WF_vars(LoopStep)
    /\ \A u \in Units : WF_vars(TaskDone(u))
    /\ \A w \in Waiters : WF_vars(Watcher(w))
    /\ \A c \in Closers : WF_vars(CloseStep(c))
    /\ \A w \in Waiters : WF_vars(WaitStep(w))

\* Only the WaitInFlight callers are scheduled: lifecycle tasks may never
\* return and the loop may never run again.
WaitSpec == Spec /\ \A w \in Waiters : WF_vars(WaitStep(w))

\* Only the loop is scheduled: lifecycle tasks may never return, watchers
\* and callers may never run again.
LoopSpec == Spec /\ WF_vars(LoopStep)

\* ------------------------------------------------------------ properties

\* C1: whenever WaitInFlight has returned nil, every lifecycle task the loop
\* had accepted before it accepted this call's request has finished.
C1_NilMeansEarlierTasksDone ==
    \A w \in Waiters :
        waitPc[w] = "retNil" => \A u \in snap[w] : unitPc[u] = "done"

\* a call returned nil for a non-empty set of earlier tasks while a task
\* accepted after its request is still running
C1_Witness ==
    \E w \in Waiters :
        /\ waitPc[w] = "retNil"
        /\ snap[w] # {}
        /\ \E u \in Units \ snap[w] : unitPc[u] = "running"

\* C2: shutdownDone is closed, and so any Close returns, only when the
\* WaitGroup is at zero and no lifecycle task is running; and when every
\* lifecycle task finishes, every Close that was called returns.
C2_CloseWaitsForTasks ==
    /\ [](doneCloses > 0 => wg = 0 /\ Running = {})
    /\ [](\A c \in Closers : closePc[c] = "returned" => Running = {})
    /\ \A c \in Closers : (closePc[c] # "idle") ~> (closePc[c] = "returned")

\* a Close has returned after tasks were spawned, with a submitter still parked
C2_Witness ==
    \E c \in Closers :
        /\ closePc[c] = "returned"
        /\ \E u \in Msgs : unitPc[u] = "done"
        /\ \E u \in Msgs : unitPc[u] = "offered"

\* C3: with any number of Close callers, shutdown and shutdownDone are each
\* closed at most once, shutdown is closed exactly once as soon as a caller
\* is past once.Do, a caller returns only after the loop has exited, and
\* every caller returns.
C3_CloseOneShot ==
    /\ [](shutdownCloses <= 1 /\ doneCloses <= 1)
    /\ [](\A c \in Closers :
            closePc[c] \in {"recv", "returned"} => shutdownCloses = 1)
    /\ [](\A c \in Closers :
            closePc[c] = "returned" => doneCloses = 1 /\ loopPc = "exited")
    /\ \A c \in Closers : (closePc[c] = "do") ~> (closePc[c] = "returned")

\* two callers have returned from Close
C3_Witness ==
    \E c, d \in Closers :
        c # d /\ closePc[c] = "returned" /\ closePc[d] = "returned"

\* C4: every unit offered to the coordinator, message or call, is eventually
\* received by the loop unless the server is shut down.
C4_EveryOfferReceived ==
    \A u \in Units :
        (unitPc[u] = "offered")
            ~> (unitPc[u] \in {"running", "done"} \/ shutdownCloses > 0)

\* C5 as stated: from the close of the shutdown channel on, the loop accepts
\* no submission and never increments the in-flight count.
C5_NoAcceptAfterSignal ==
    [][shutdownCloses > 0 => (wg' <= wg /\ Accepted' = Accepted)]_vars

\* C5 amended: once the loop has taken the shutdown case of its select, it
\* accepts no submission and never increments the in-flight count.
C5_NoAcceptAfterObserved ==
    [][loopPc # "select" => (wg' <= wg /\ Accepted' = Accepted)]_vars

\* the loop has left its select while a message submitter is still parked
C5_Witness ==
    /\ loopPc # "select"
    /\ \E u \in Msgs : unitPc[u] = "offered"

\* C6: a WaitInFlight whose context is never done, on a server that is not
\* shut down, returns nil when every task finishes; and when it has returned
\* nil with no submission accepted since its request, all accepted tasks
\* have finished and the in-flight count is zero.
C6_DrainReturnsNil ==
    /\ [](\A w \in Waiters :
            (waitPc[w] = "retNil" /\ Accepted = snap[w])
                => (wg = 0 /\ \A u \in Accepted : unitPc[u] = "done"))
    /\ \A w \in Waiters :
          (waitPc[w] = "send")
              ~> (waitPc[w] = "retNil" \/ ctxDone[w] \/ shutdownCloses > 0)

\* a call returned nil after all the messages were accepted before its request
C6_Witness ==
    \E w \in Waiters :
        /\ waitPc[w] = "retNil"
        /\ snap[w] = Msgs
        /\ Accepted = snap[w]

\* C7: once its context is done, a WaitInFlight that is in either select
\* returns, whatever the lifecycle tasks and the loop do; it returns nil only
\* if its channel was closed and an error only if its context is done.
C7_DeadlineHonoured ==
    /\ [](\A w \in Waiters :
            /\ waitPc[w] = "retNil" => chCloses[w] > 0
            /\ waitPc[w] = "retErr" => ctxDone[w])
    /\ \A w \in Waiters :
          (ctxDone[w] /\ waitPc[w] \in {"send", "recv"})
              ~> (waitPc[w] \in {"retNil", "retErr"})

\* one call gave up in the first select, another in the second select while
\* its watcher still waits for a running task
C7_Witness ==
    \E w, x \in Waiters :
        /\ waitPc[w] = "retErr" /\ watchPc[w] = "none"
        /\ waitPc[x] = "retErr" /\ watchPc[x] = "wait"
        /\ Running # {}

\* C8: every watcher ends when every lifecycle task finishes; a channel is
\* closed at most once, exactly once when its watcher has ended, and only by
\* the watcher spawned for its own request.
C8_WatcherEnds ==
    /\ [](\A w \in Waiters :
            /\ chCloses[w] <= 1
            /\ watchPc[w] = "done" => chCloses[w] = 1
            /\ chCloses[w] > 0 => watchPc[w] = "done")
    /\ \A w \in Waiters : (watchPc[w] = "wait") ~> (watchPc[w] = "done")

\* a watcher whose caller timed out has ended, the loop has exited, and the
\* other request's channel is still open
C8_Witness ==
    \E w, x \in Waiters :
        /\ watchPc[w] = "done" /\ waitPc[w] = "retErr" /\ chCloses[w] = 1
        /\ loopPc = "exited"
        /\ x # w /\ watchCh[x] # 0 /\ chCloses[x] = 0

\* C9: an AddNumber for a number whose AddNumber succeeded before, and an
\* AddMsgService for an ID whose AddMsgService succeeded before, returns the
\* duplicate error and leaves the tables and the records unchanged.
C9_ReRegisterFails ==
    [][\A p \in Procs :
         /\ (/\ procPc[p] = "an_hold"
             /\ procPc'[p] = "idle"
             /\ Has(regNum, procArg[p].Number))
                => (/\ procRet'[p].err = "duplicate"
                    /\ UNCHANGED <<heap, numDB, msDB>>)
         /\ (/\ procPc[p] \in {"ms_holdSvc", "ms_holdBoth"}
             /\ procPc'[p] = "idle"
             /\ procArg[p].ID \in okSvc)
                => (/\ procRet'[p].err = "duplicate"
                    /\ UNCHANGED <<heap, numDB, msDB>>)]_vars

\* The record number(k) returns: the one the table points to.
Record(k) == heap[number(numDB, k)]

OwnSmsURL(k) == IF Has(regNum, k) THEN regNum[k].SMSWebhookURL ELSE Empty

\* C11: every number numberSvc returns for a registered service carries the
\* service's SMSWebhookURL when the service has one, and otherwise the SMS
\* webhook URL the number itself was registered with.
C11_ServiceWebhookWins ==
    \A sid \in DOMAIN regSvc :
        \A i \in DOMAIN numberSvc(msDB, sid) :
            LET n == heap[numberSvc(msDB, sid)[i]]
            IN  n.SMSWebhookURL =
                    IF regSvc[sid].SMSWebhookURL # Empty
                    THEN regSvc[sid].SMSWebhookURL
                    ELSE OwnSmsURL(n.Number)

\* The number written in a sequence of decimal digits.
RECURSIVE DigitsValue(_)
DigitsValue(d) ==
    IF d = <<>> THEN 0
    ELSE 10 * DigitsValue(SubSeq(d, 1, Len(d) - 1))
         + (CHOOSE v \in 0..9 : DigitChars[v + 1] = d[Len(d)])

\* C12: no two calls of nextID return the same identifier, whatever their
\* prefixes; no two calls obtain the same counter; a call that started after
\* another had returned has the greater counter; the identifier is the
\* prefix followed by exactly 32 decimal digits that spell the counter.
C12_IdsUniqueIncreasing ==
    /\ \A i, j \in DOMAIN issued : i # j => issued[i].s # issued[j].s
    /\ \A i, j \in DOMAIN issued : i # j => issued[i].n # issued[j].n
    /\ \A i \in DOMAIN issued, p \in IdCallers :
          idPc[p] = "fmt" => idVal[p] # issued[i].n
    /\ \A p, q \in IdCallers :
          (p # q /\ idPc[p] = "fmt" /\ idPc[q] = "fmt") => idVal[p] # idVal[q]
    /\ \A i \in DOMAIN issued : \A v \in issued[i].seen : issued[i].n > v
    /\ \A i \in DOMAIN issued :
          LET e == issued[i]
              tail == SubSeq(e.s, Len(e.prefix) + 1, Len(e.s))
          IN  /\ Len(e.s) = Len(e.prefix) + 32
              /\ SubSeq(e.s, 1, Len(e.prefix)) = e.prefix
              /\ \A k \in DOMAIN tail : \E v \in 0..9 : DigitChars[v + 1] = tail[k]
              /\ DigitsValue(tail) = e.n

\* two concurrent calls returned in the order opposite to their increments,
\* and a call that started after both has returned
C12_Witness ==
    /\ Len(issued) >= 3
    /\ issued[1].n > issued[2].n
    /\ issued[1].prefix # issued[2].prefix
    /\ issued[3].seen = {issued[1].n, issued[2].n}

\* A webhook URL that is given but has no scheme: no ':' in it, or nothing
\* in front of its first ':'.
LacksScheme(u) ==
    /\ u # Empty
    /\ \/ \A i \in DOMAIN u : u[i] # ":"
       \/ u[1] = ":"

MalformedNumber(n) ==
    \/ n.Number \notin ValidNums
    \/ LacksScheme(n.SMSWebhookURL)
    \/ LacksScheme(n.VoiceWebhookURL)

MalformedService(ms) ==
    \/ ~(Len(ms.ID) >= 2 /\ ms.ID[1] = "M" /\ ms.ID[2] = "G")
    \/ LacksScheme(ms.SMSWebhookURL)
    \/ \E i \in DOMAIN ms.Numbers : ms.Numbers[i] \notin ValidNums

\* C13: a registration that returns a validation error has taken no table
\* and leaves both tables and every record as they were; no call with a
\* malformed number, a webhook URL without scheme, an ID without the prefix
\* MG or a malformed member gets as far as taking a table, so nothing
\* malformed is ever stored.
C13_InvalidLeavesStore ==
    [][/\ \A p \in Procs :
            (procRet'[p] # procRet[p] /\ procRet'[p].err = "invalid")
                => (/\ UNCHANGED <<numCh, svcCh, heap, numDB, msDB>>
                    /\ procPc'[p] = "idle")
       /\ \A p \in Procs :
            /\ procPc'[p] \in {"an_recv", "an_hold"}
                  => ~MalformedNumber(procArg'[p])
            /\ procPc'[p] \in {"ms_recvSvc", "ms_holdSvc", "ms_holdBoth"}
                  => ~MalformedService(procArg'[p])
       /\ \A k \in DOMAIN numDB' : k \in ValidNums
       /\ \A a \in DOMAIN heap' : ~MalformedNumber(heap'[a])
       /\ \A sid \in DOMAIN msDB' : sid[1] = "M" /\ sid[2] = "G"]_vars

\* an AddMsgService was rejected while the store holds a service and a
\* number registered with webhooks
C13_Witness ==
    \E p \in Procs :
        /\ procRet[p] = Ret("AddMsgService", "invalid")
        /\ DOMAIN msDB # {}
        /\ \E k \in DOMAIN regNum : regNum[k].SMSWebhookURL # Empty

\* Service sid, as far as the tables show it, is fully created: the call
\* that created it has returned, its list has one entry per member in the
\* order of ms.Numbers, each entry is the record the numbers table holds
\* for that member, and the override, if any, is on every member.
Complete(sid) ==
    /\ Has(regSvc, sid)
    /\ LET ms == regSvc[sid]
           l == msDB[sid]
       IN  /\ Len(l) = Len(ms.Numbers)
           /\ \A i \in DOMAIN l :
                 /\ Has(numDB, ms.Numbers[i])
                 /\ l[i] = numDB[ms.Numbers[i]]
                 /\ heap[l[i]].Number = ms.Numbers[i]
                 /\ ms.SMSWebhookURL # Empty
                       => heap[l[i]].SMSWebhookURL = ms.SMSWebhookURL

\* The callers that hold the numbers table, the service table.
NumHolders == {p \in Procs : procPc[p] \in {"an_hold", "n_hold", "ms_holdBoth"}}
SvcHolders == {p \in Procs : procPc[p] \in {"ms_holdSvc", "ms_holdBoth", "s_hold"}}

\* C14: whenever a concurrent operation holds a table it reads (numberSvc,
\* number, AddNumber, the duplicate check of another AddMsgService), every
\* service in the service table is fully created, and every number in the
\* numbers table that no AddNumber registered belongs to such a service.
C14_ServiceAtomic ==
    \A q \in Procs :
        procPc[q] \in {"s_hold", "n_hold", "an_hold", "ms_holdSvc"}
            => /\ \A sid \in DOMAIN msDB : Complete(sid)
               /\ \A k \in DOMAIN numDB :
                     ~Has(regNum, k)
                        => \E sid \in DOMAIN msDB :
                              \E i \in DOMAIN msDB[sid] : msDB[sid][i] = numDB[k]

\* numberSvc holds the table of a two-member service with an override, one
\* member registered beforehand and one auto-created, while another
\* AddMsgService waits for the table
C14_Witness ==
    \E q, r \in Procs :
        /\ procPc[q] = "s_hold"
        /\ Len(numberSvc(msDB, procArg[q])) = 2
        /\ regSvc[procArg[q]].SMSWebhookURL # Empty
        /\ \E k \in DOMAIN numDB : Has(regNum, k)
        /\ \E k \in DOMAIN numDB : ~Has(regNum, k)
        /\ procPc[r] = "ms_recvSvc"

\* C15: an operation takes the service table only while it holds no table,
\* and the numbers table only while it holds none or the service table; and
\* every operation that was called completes.
C15_NoDeadlock ==
    /\ [][\A p \in Procs :
            /\ (p \notin SvcHolders /\ p \in SvcHolders') => p \notin NumHolders
            /\ (p \notin NumHolders /\ p \in NumHolders')
                  => procPc[p] \in {"idle", "an_recv", "ms_holdSvc"}]_vars
    /\ \A p \in Procs : (procPc[p] # "idle") ~> (procPc[p] = "idle")

\* an AddMsgService holds the service table and waits for the numbers table
\* that a number() holds
C15_Witness ==
    \E p, q \in Procs :
        /\ procPc[p] = "ms_holdSvc"
        /\ ~Has(msDB, procArg[p].ID)
        /\ procPc[q] = "n_hold"

\* C18: each table is either in its channel or held by exactly one
\* operation, never both and never neither; so a holder always finds the
\* channel empty when it sends the table back, and when no operation is in
\* progress both tables are in their channels.
C18_TokenConservation ==
    /\ numCh \in {"full", "empty"} /\ svcCh \in {"full", "empty"}
    /\ Cardinality(NumHolders) <= 1
    /\ Cardinality(SvcHolders) <= 1
    /\ numCh = "full" <=> NumHolders = {}
    /\ svcCh = "full" <=> SvcHolders = {}
    /\ (\A p \in Procs : procPc[p] = "idle") => (numCh = "full" /\ svcCh = "full")

\* an AddMsgService holds both tables in the middle of its loop while
\* another caller waits for the numbers table
C18_Witness ==
    \E p, q \in Procs :
        /\ procPc[p] = "ms_holdBoth"
        /\ Len(numberSvc(msDB, procArg[p].ID)) = 1
        /\ procPc[q] = "an_recv"
        /\ numCh = "empty" /\ svcCh = "empty"

\* C16: while shutdown is not signalled the loop is at its select, and it
\* reaches the wait on the WaitGroup only after the signal; a message or a
\* WaitInFlight request offered to the loop is accepted (unless shutdown is
\* signalled or the requester gives up) even if no lifecycle task ever
\* finishes.
C16_LoopNeverBlocks ==
    /\ [](shutdownCloses = 0 => loopPc = "select")
    /\ [](loopPc \in {"wgWait", "closeMsgCh", "closeDone", "exited"}
            => shutdownCloses > 0)
    /\ \A u \in Msgs :
          (unitPc[u] = "offered")
              ~> (unitPc[u] = "running" \/ shutdownCloses > 0)
    /\ \A w \in Waiters :
          (waitPc[w] = "send")
              ~> (waitPc[w] # "send" \/ shutdownCloses > 0)

\* with shutdown not signalled, a second message was accepted and a
\* WaitInFlight request was taken while the first task is still running
C16_Witness ==
    /\ shutdownCloses = 0
    /\ \A u \in Msgs : unitPc[u] = "running"
    /\ wg = MaxMsgs
    /\ \E w \in Waiters : watchPc[w] = "wait" /\ snap[w] # {} /\ snap[w] # Msgs

\* The order of the loop's positions from its select to its exit.
LoopRank ==
    [select |-> 0, cancel |-> 1, wgWait |-> 2, closeMsgCh |-> 3,
     closeDone |-> 4, exited |-> 5]

\* C17: the lifecycle context is cancelled only after shutdown was
\* signalled; the loop goes from its select through cancel, wait, close of
\* msgCh and close of shutdownDone in that order, one step at a time; it
\* passes the wait only with no task running; msgCh is closed at most once,
\* only after the cancel and never while a task runs; shutdownDone is closed
\* only after msgCh; a Close returns only after the cancel.
C17_TeardownOrder ==
    [][/\ lifecycleCtx' = "cancelled" => shutdownCloses' > 0
       /\ loopPc' # loopPc
             => /\ LoopRank[loopPc'] = LoopRank[loopPc] + 1
                /\ shutdownCloses > 0
       /\ (loopPc = "cancel" /\ loopPc' # loopPc) => lifecycleCtx' = "cancelled"
       /\ (loopPc = "wgWait" /\ loopPc' # loopPc) => (wg = 0 /\ Running = {})
       /\ LoopRank[loopPc'] >= 2 => lifecycleCtx' = "cancelled"
       /\ LoopRank[loopPc'] >= 3 => (wg' = 0 /\ Running' = {})
       /\ msgChCloses' = (IF LoopRank[loopPc'] >= 4 THEN 1 ELSE 0)
       /\ doneCloses' = (IF LoopRank[loopPc'] >= 5 THEN 1 ELSE 0)
       /\ msgChCloses' > 0 => Running' = {}
       /\ \A c \in Closers :
             closePc'[c] = "returned"
                => (lifecycleCtx' = "cancelled" /\ msgChCloses' = 1)]_vars

\* the context is cancelled and the loop waits while a task accepted
\* before shutdown is still running and a Close is blocked
C17_Witness ==
    /\ loopPc = "wgWait"
    /\ lifecycleCtx = "cancelled"
    /\ Running # {}
    /\ msgChCloses = 0
    /\ \E c \in Closers : closePc[c] = "recv"

\* C19: when NewServer has returned, the channel of the message-state table
\* and the channel of the call-state table each hold one table.
C19_StateTablesReady ==
    /\ msgStateDB = 1
    /\ callStateDB = 1

\* C20: once a Close has returned, a WaitInFlight that has not been accepted
\* yet (not started, or in its first select) is never accepted and never
\* returns nil: it stays where it is or returns its context's error, and
\* that only with its context done; with its context done it does return.
C20_NoNilAfterClose ==
    /\ [][\A w \in Waiters :
            ((\E c \in Closers : closePc[c] = "returned")
                /\ waitPc[w] \in {"idle", "send"})
              => (/\ waitPc'[w] \in {"idle", "send", "retErr"}
                  /\ waitPc'[w] = "retErr" => ctxDone[w]
                  /\ watchPc'[w] = watchPc[w]
                  /\ chCloses'[w] = chCloses[w])]_vars
    /\ \A w \in Waiters :
          ((\E c \in Closers : closePc[c] = "returned")
              /\ waitPc[w] = "send" /\ ctxDone[w])
            ~> (waitPc[w] = "retErr")

\* after Close returned with nothing in flight, one WaitInFlight gave up
\* without a watcher and another is parked with its context not done
C20_Witness ==
    /\ \E c \in Closers : closePc[c] = "returned"
    /\ wg = 0
    /\ \E w, x \in Waiters :
          /\ waitPc[w] = "retErr" /\ watchPc[w] = "none"
          /\ waitPc[x] = "send" /\ ~ctxDone[x]
====
